---- MODULE Spec2Model ----
(***************************************************************************)
(* Model of Fin_Document_Analysis_ag2/ag2_working_rag.py:                  *)
(*   - MyEmbeddingFunction.split_into_chunks and __call__ (the chunked     *)
(*     embedding producer), with the embedding provider as environment;    *)
(*   - the Streamlit script's session state (chat_history, message,        *)
(*     docs_path) and the bounded two-agent chat it starts per query.      *)
(* Strings are sequences of one-character strings, so that slicing,        *)
(* rstrip, endswith and the `in` substring test are computed.              *)
(***************************************************************************)
EXTENDS Integers, Sequences, FiniteSets, TLC

VARIABLES
    split,           \* record of a direct split_into_chunks(document, chunk_size) call
    epc,             \* position of __call__: "idle", "awaiting", "returned", "raised"
    input,           \* __call__'s argument: the list of documents
    di,              \* index (1-based) of the document of the outer loop
    chunks,          \* chunks of the current document
    ci,              \* index (1-based) of the chunk of the inner loop
    all_embeddings,  \* the local accumulator of __call__
    calls,           \* the provider's request log: one entry per embeddings.create call
    result,          \* what __call__ returned to its caller
    error,           \* the exception __call__ let out to its caller
    chat_history,    \* st.session_state.chat_history
    message,         \* st.session_state.message
    docs_path,       \* st.session_state.docs_path
    uploaded_file,   \* the file uploader's value
    link,            \* the text input's value
    cpc,             \* the script: "idle" between runs, or inside initiate_chat waiting
                     \* for the "assistant"'s or the "proxy"'s reply
    turns,           \* turns of the running chat (messages sent by ragproxyagent)
    chat_messages,   \* the running chat's conversation, as the agents hold it
    closed,          \* the browser session was closed
    turn_log         \* history variable: the user queries submitted and the non-empty
                     \* messages the assistant received since the last clear

embedVars == <<split, epc, input, di, chunks, ci, all_embeddings, calls, result, error>>

appVars == <<chat_history, message, docs_path, uploaded_file, link, cpc, turns,
             chat_messages, closed, turn_log>>

vars == <<embedVars, appVars>>

None == "None"

Min(a, b) == IF a < b THEN a ELSE b

\* ---------------------------------------------------------------- bounds
MaxLen == 4          \* longest generated document of a direct split call
MaxChunkSize == 3    \* direct split calls draw chunk_size from -MaxChunkSize..MaxChunkSize
MaxDocs == 2         \* longest input list of __call__
MaxFullChunks == 1   \* documents of __call__ have up to this many full 512-windows

\* chunk_size's default, the size __call__ always uses
DefaultChunkSize == 512

\* ---------------------------------------------------------------- strings
Alphabet == {"a", "b"}

RECURSIVE SeqsUpTo(_, _)
SeqsUpTo(S, n) ==
    IF n = 0 THEN {<<>>}
    ELSE LET shorter == SeqsUpTo(S, n - 1)
         IN  shorter \cup {Append(s, x) : s \in {t \in shorter : Len(t) = n - 1}, x \in S}

SampleDocument == <<"A", "B", "C", "D", "E", "F", "G", "H", "I", "J">>

SmallDocuments == SeqsUpTo(Alphabet, MaxLen) \cup {SampleDocument}

ChunkSizes == ((0 - MaxChunkSize)..MaxChunkSize) \cup {DefaultChunkSize}

\* a document of n characters: one repeated letter, or a cycle of three letters
\* (512 is not a multiple of 3, so consecutive windows of the cycle differ)
MkDoc(n, pattern) ==
    [i \in 1..n |-> IF pattern = "same" THEN "a"
                    ELSE IF i % 3 = 1 THEN "a" ELSE IF i % 3 = 2 THEN "b" ELSE "c"]

LongDocuments ==
    {MkDoc(k * DefaultChunkSize + r, p) :
        k \in 0..MaxFullChunks, r \in {0, 1}, p \in {"same", "cycle"}}

Inputs == UNION {[1..n -> LongDocuments] : n \in 0..MaxDocs}

\* ---------------------------------------------------------------- split_into_chunks

\* Python's range(start, stop, step) as the list of its values;
\* step = 0 raises ValueError, a negative step from 0 upwards is empty
RECURSIVE RangeFrom(_, _, _)
RangeFrom(i, stop, step) ==
    IF i < stop THEN <<i>> \o RangeFrom(i + step, stop, step) ELSE <<>>

\* a range that stops before a last, shorter step
PyRangeFullStepsOnly(start, stop, step) ==
    IF step = 0 THEN [raised |-> "ValueError", value |-> <<>>]
    ELSE IF step > 0 THEN [raised |-> None, value |-> RangeFrom(start, stop - step + 1, step)]
    ELSE [raised |-> None, value |-> <<>>]

PyRange(start, stop, step) ==
    IF step = 0 THEN [raised |-> "ValueError", value |-> <<>>]
    ELSE IF step > 0 THEN [raised |-> None, value |-> RangeFrom(start, stop, step)]
    ELSE [raised |-> None, value |-> <<>>]

SliceOverlapping(document, i, j) == SubSeq(document, i + 1, Min(j + 1, Len(document)))

\* Python's document[i:j] for 0 <= i (0-based, j exclusive, clamped to the end)
Slice(document, i, j) == SubSeq(document, i + 1, Min(j, Len(document)))

split_into_chunks(document, chunk_size) ==
    LET r == PyRange(0, Len(document), chunk_size)
    IN  IF r.raised # None
        THEN [raised |-> r.raised, value |-> <<>>]
        ELSE [raised |-> None,
              value  |-> [k \in 1..Len(r.value) |->
                             Slice(document, r.value[k], r.value[k] + chunk_size)]]

\* ---------------------------------------------------------------- initial state
\* no exception has been raised
NoException == [type |-> None]

\* a request that was answered by an exception has no response
NoResponse == [embedding |-> None]

\* __call__ has not returned: its caller holds no list
NoResult == [returned |-> FALSE, value |-> <<>>]

NoSplit == [called |-> FALSE, document |-> <<>>, chunk_size |-> DefaultChunkSize,
            raised |-> None, value |-> <<>>]

InitEmbed ==
    /\ split = NoSplit
    /\ epc = "idle"
    /\ input = <<>>
    /\ di = 0
    /\ chunks = <<>>
    /\ ci = 0
    /\ all_embeddings = <<>>
    /\ calls = <<>>
    /\ result = NoResult
    /\ error = NoException

\* a caller invokes split_into_chunks(document, chunk_size) directly
SplitCall(document, chunk_size) ==
    /\ epc = "idle"
    /\ ~split.called
    /\ LET r == split_into_chunks(document, chunk_size)
       IN  split' = [called |-> TRUE, document |-> document, chunk_size |-> chunk_size,
                     raised |-> r.raised, value |-> r.value]
    /\ UNCHANGED <<epc, input, di, chunks, ci, all_embeddings, calls, result, error, appVars>>

\* ---------------------------------------------------------------- __call__

RequestBatched(chunk) == [input |-> chunks, model |-> "text-embedding-3-small"]

\* the request __call__ sends for one chunk: embeddings.create(input=[chunk], model=...)
Request(chunk) == [input |-> <<chunk>>, model |-> "text-embedding-3-small"]

\* the provider's answers: the n-th request is answered with an embedding of its own
\* (embeddings are opaque: each answer is identified by the request it answers),
\* or the client raises one of its exceptions
ProviderExceptions == {"RateLimitError", "APIConnectionError"}

Embedding(n) == [embedding |-> n]

Exception(type) == [type |-> type]


\* the first document at index >= d (1-based) that has a chunk; Len(docs)+1 if none:
\* the outer loop runs through documents without chunks without calling the provider
RECURSIVE NextDocWithChunks(_, _)
NextDocWithChunks(docs, d) ==
    IF d > Len(docs) THEN d
    ELSE IF split_into_chunks(docs[d], DefaultChunkSize).value # <<>> THEN d
    ELSE NextDocWithChunks(docs, d + 1)

CollectInFront(embeddings, response) == <<response>> \o embeddings

\* all_embeddings.append(response)
Collect(embeddings, response) == Append(embeddings, response)

\* only the first chunk of each document is embedded
ContinueFirstChunkOnly(docs, d, cs, c, embeddings) ==
    LET nd == NextDocWithChunks(docs, d + 1)
    IN  IF nd > Len(docs)
        THEN /\ epc' = "returned"
             /\ result' = [returned |-> TRUE, value |-> embeddings]
             /\ UNCHANGED <<di, chunks, ci>>
        ELSE /\ epc' = "awaiting"
             /\ di' = nd
             /\ chunks' = split_into_chunks(docs[nd], DefaultChunkSize).value
             /\ ci' = 1
             /\ UNCHANGED result

\* the loops move on to the next chunk, or __call__ returns all_embeddings
Continue(docs, d, cs, c, embeddings) ==
    IF c < Len(cs)
    THEN /\ epc' = "awaiting"
         /\ ci' = c + 1
         /\ UNCHANGED <<di, chunks, result>>
    ELSE LET nd == NextDocWithChunks(docs, d + 1)
         IN  IF nd > Len(docs)
             THEN /\ epc' = "returned"
                  /\ result' = [returned |-> TRUE, value |-> embeddings]
                  /\ UNCHANGED <<di, chunks, ci>>
             ELSE /\ epc' = "awaiting"
                  /\ di' = nd
                  /\ chunks' = split_into_chunks(docs[nd], DefaultChunkSize).value
                  /\ ci' = 1
                  /\ UNCHANGED result

\* __call__(input): up to the first embeddings.create call, or to the return when
\* no document has a chunk
Call(docs) ==
    /\ epc = "idle"
    /\ ~split.called
    /\ input' = docs
    /\ all_embeddings' = <<>>
    /\ Continue(docs, 0, <<>>, 0, <<>>)
    /\ UNCHANGED <<split, calls, error, appVars>>

PropagateWrapped(exc, index) == [type |-> "ProviderError", index |-> index, cause |-> exc]

\* the exception of embeddings.create leaves __call__ as it is: there is no
\* try/except around the call
Propagate(exc, index) == exc

\* embeddings.create answers the pending request with an embedding
ProviderOk ==
    /\ epc = "awaiting"
    /\ LET response == Embedding(Len(calls) + 1)
           embeddings == Collect(all_embeddings, response.embedding)
       IN  /\ calls' = Append(calls, [request |-> Request(chunks[ci]),
                                      raised |-> NoException, response |-> response])
           /\ all_embeddings' = embeddings
           /\ Continue(input, di, chunks, ci, embeddings)
    /\ UNCHANGED <<split, input, error, appVars>>

ProviderFailSwallowed(type) ==
    /\ epc = "awaiting"
    /\ calls' = Append(calls, [request |-> Request(chunks[ci]),
                               raised |-> Exception(type), response |-> NoResponse])
    /\ Continue(input, di, chunks, ci, all_embeddings)
    /\ UNCHANGED <<split, input, all_embeddings, error, appVars>>

\* embeddings.create raises on the pending request
ProviderFail(type) ==
    /\ epc = "awaiting"
    /\ calls' = Append(calls, [request |-> Request(chunks[ci]),
                               raised |-> Exception(type), response |-> NoResponse])
    /\ error' = Propagate(Exception(type), Len(all_embeddings))
    /\ epc' = "raised"
    /\ UNCHANGED <<split, input, di, chunks, ci, all_embeddings, result, appVars>>

\* ---------------------------------------------------------------- Python strings

Whitespace == {" ", "\n", "\t"}

\* str.rstrip(): the string without its trailing whitespace
RECURSIVE rstrip(_)
rstrip(s) ==
    IF s # <<>> /\ s[Len(s)] \in Whitespace THEN rstrip(SubSeq(s, 1, Len(s) - 1)) ELSE s

\* str.endswith(suffix)
endswith(s, suffix) ==
    /\ Len(suffix) <= Len(s)
    /\ SubSeq(s, Len(s) - Len(suffix) + 1, Len(s)) = suffix

\* `sub in s` for two strings
Contains(sub, s) ==
    \E k \in 0..(Len(s) - Len(sub)) : SubSeq(s, k + 1, k + Len(sub)) = sub

TERMINATE == <<"T", "E", "R", "M", "I", "N", "A", "T", "E">>

CONTENT == <<"c", "o", "n", "t", "e", "n", "t">>

\* messages are Python values: a str, or a dict with the key "content"
PyStr(text) == [py |-> "str", value |-> text]

PyDict(content) == [py |-> "dict", value |-> [content |-> content]]

\* `if message:`: a str is true when it is not empty, a dict when it has a key
Truthy(m) == IF m.py = "str" THEN m.value # <<>> ELSE DOMAIN m.value # {}

\* `any(key in message for key in ["content"])`: a key of a dict, a substring of a str
HasContent(m) ==
    IF m.py = "str" THEN Contains(CONTENT, m.value) ELSE "content" \in DOMAIN m.value

\* ---------------------------------------------------------------- the script's inputs
\* queries typed into st.chat_input: never empty
Queries == { <<"h", "i">>, CONTENT \o <<"?">> }

\* contents of the assistant's replies
AssistantContents ==
    { <<"o", "k">>,
      <<"o", "k", " ">> \o TERMINATE,
      TERMINATE \o <<" ", "\n">>,
      TERMINATE \o <<".">> }

\* the proxy's automatic replies: the empty default reply, or a text
ProxyReplies == { <<>>, <<"g", "o">>, <<"n", "o", " ">> \o CONTENT }

NoFile == "None"

Files == {NoFile, "report.pdf"}

Links == {"", "http://x"}

max_turns == 2

MaxMessages == 3   \* entries of session_state.message, which the script never clears
MaxDocsPath == 2   \* entries of session_state.docs_path

\* ---------------------------------------------------------------- agents

is_termination_msg_no_rstrip(x) == endswith(x.content, TERMINATE)

\* lambda x: x.get("content", "").rstrip().endswith("TERMINATE")
is_termination_msg(x) == endswith(rstrip(x.content), TERMINATE)

\* TrackableAssistantAgent._process_received_message: the chat_history it leaves
AssistantProcessReceived(history, m, sender) ==
    IF Truthy(m)
    THEN IF HasContent(m)
         THEN \* for key in message: if key == "content": append(message[key]);
              \* the keys of a dict, the characters of a str
              IF m.py = "dict"
              THEN Append(history, [sender |-> sender, message |-> m.value.content])
              ELSE history \o [k \in 1..Cardinality({i \in DOMAIN m.value : m.value[i] = "content"})
                                 |-> [sender |-> sender, message |-> m.value]]
         ELSE Append(history, [sender |-> sender, message |-> m.value])
    ELSE history

\* TrackableUserProxyAgent._process_received_message: the session's message list
ProxyProcessReceived(messages, m, sender) ==
    Append(messages, [sender |-> sender, message |-> m])

\* RetrieveUserProxyAgent.message_generator: the prompt built around the problem
message_generator(problem) == PyStr(<<"Q", ":", " ">> \o problem)

\* the entry of the conversation an agent keeps for a sent or received message
AsDict(m, name) ==
    [name |-> name, content |-> IF m.py = "str" THEN m.value ELSE m.value.content]

\* ---------------------------------------------------------------- the script
InitApp ==
    /\ chat_history = <<>>
    /\ message = <<>>
    /\ docs_path = <<>>
    /\ uploaded_file = NoFile
    /\ link = ""
    /\ cpc = "idle"
    /\ turns = 0
    /\ chat_messages = <<>>
    /\ closed = FALSE
    /\ turn_log = <<>>

\* the sidebar of one script run: "Clear Documents", then the uploaded file and the
\* link are appended, on every run on which they are set
Sidebar(docs, clearDocs, file, lnk) ==
    LET d0 == IF clearDocs THEN <<>> ELSE docs
        d1 == IF file # NoFile THEN Append(d0, file) ELSE d0
    IN  IF lnk # "" THEN Append(d1, lnk) ELSE d1

\* one run of the script from top to bottom without a query
Script(clearChat, clearDocs, file, lnk) ==
    /\ cpc = "idle"
    /\ ~closed
    /\ Len(Sidebar(docs_path, clearDocs, file, lnk)) <= MaxDocsPath
    /\ chat_history' = IF clearChat THEN <<>> ELSE chat_history
    /\ turn_log' = IF clearChat THEN <<>> ELSE turn_log
    /\ docs_path' = Sidebar(docs_path, clearDocs, file, lnk)
    /\ uploaded_file' = file
    /\ link' = lnk
    /\ UNCHANGED <<message, cpc, turns, chat_messages, closed, embedVars>>

\* the "Clear Chat History" button is pressed: the script runs with it true
PressClearChatHistory ==
    /\ ~closed
    /\ Script(TRUE, FALSE, uploaded_file, link)

\* the "Clear Documents" button is pressed
PressClearDocuments ==
    /\ ~closed
    /\ Script(FALSE, TRUE, uploaded_file, link)

\* a file is chosen in, or removed from, the uploader
ChangeUpload(file) ==
    /\ file # uploaded_file
    /\ Script(FALSE, FALSE, file, link)

\* the link field is edited
ChangeLink(lnk) ==
    /\ lnk # link
    /\ Script(FALSE, FALSE, uploaded_file, lnk)

\* a query is submitted: the script runs, appends the query and starts the chat;
\* the proxy sends the generated prompt, the assistant receives it
SubmitQuery(user_input) ==
    /\ cpc = "idle"
    /\ ~closed
    /\ Len(Sidebar(docs_path, FALSE, uploaded_file, link)) <= MaxDocsPath
    /\ Len(message) + max_turns <= MaxMessages
    /\ docs_path' = Sidebar(docs_path, FALSE, uploaded_file, link)
    /\ LET m == message_generator(user_input)
           entry == [sender |-> "user", message |-> user_input]
       IN  /\ chat_history' =
                 AssistantProcessReceived(Append(chat_history, entry), m, "ragproxyagent")
           /\ turn_log' = Append(turn_log, entry)
                            \o (IF Truthy(m)
                                THEN <<[sender |-> "ragproxyagent", message |-> m.value]>>
                                ELSE <<>>)
           /\ chat_messages' = <<AsDict(m, "ragproxyagent")>>
    /\ turns' = 1
    /\ cpc' = "assistant"
    /\ UNCHANGED <<message, uploaded_file, link, closed, embedVars>>

\* the assistant's reply reaches the proxy; the chat ends at the turn limit, or when
\* the proxy finds the reply to be a termination message
AssistantReply(content) ==
    /\ cpc = "assistant"
    /\ LET m == PyDict(content)
       IN  /\ message' = ProxyProcessReceived(message, m, "assistant")
           /\ chat_messages' = Append(chat_messages, AsDict(m, "assistant"))
           /\ cpc' = IF turns >= max_turns \/ is_termination_msg(AsDict(m, "assistant"))
                     THEN "idle" ELSE "proxy"
    /\ UNCHANGED <<chat_history, docs_path, uploaded_file, link, turns, closed, turn_log,
                   embedVars>>

\* the proxy's automatic reply opens the next turn; the assistant receives it
ProxyReply(text) ==
    /\ cpc = "proxy"
    /\ LET m == PyStr(text)
       IN  /\ chat_history' = AssistantProcessReceived(chat_history, m, "ragproxyagent")
           /\ turn_log' = turn_log
                            \o (IF Truthy(m)
                                THEN <<[sender |-> "ragproxyagent", message |-> m.value]>>
                                ELSE <<>>)
           /\ chat_messages' = Append(chat_messages, AsDict(m, "ragproxyagent"))
    /\ turns' = turns + 1
    /\ cpc' = "assistant"
    /\ UNCHANGED <<message, docs_path, uploaded_file, link, closed, embedVars>>

\* def on_close(): nothing in the script calls it or registers it
on_close == docs_path' = <<>>

\* the browser session is closed: no callback is registered, nothing of the script runs
AppClose ==
    /\ cpc = "idle"
    /\ ~closed
    /\ closed' = TRUE
    /\ UNCHANGED <<chat_history, message, docs_path, uploaded_file, link, cpc, turns,
                   chat_messages, turn_log, embedVars>>

\* ---------------------------------------------------------------- specifications
Init == InitEmbed /\ InitApp

Next ==
    \/ \E d \in SmallDocuments, cs \in ChunkSizes : SplitCall(d, cs)
    \/ \E docs \in Inputs : Call(docs)
    \/ ProviderOk
    \/ \E type \in ProviderExceptions : ProviderFail(type)

Spec == Init /\ [][Next]_vars

NextApp ==
    \/ PressClearChatHistory
    \/ PressClearDocuments
    \/ \E file \in Files : ChangeUpload(file)
    \/ \E lnk \in Links : ChangeLink(lnk)
    \/ \E q \in Queries : SubmitQuery(q)
    \/ \E c \in AssistantContents : AssistantReply(c)
    \/ \E r \in ProxyReplies : ProxyReply(r)
    \/ AppClose

SpecApp == Init /\ [][NextApp]_vars

\* the model's reply and the proxy's automatic reply arrive
FairSpecApp ==
    /\ SpecApp
    /\ WF_vars(\E c \in AssistantContents : AssistantReply(c))
    /\ WF_vars(\E r \in ProxyReplies : ProxyReply(r))

\* ---------------------------------------------------------------- claims

Ceil(a, b) == (a + b - 1) \div b

RECURSIVE SumLen(_)
SumLen(ss) == IF ss = <<>> THEN 0 ELSE Len(Head(ss)) + SumLen(Tail(ss))

RECURSIVE Concat(_)
Concat(ss) == IF ss = <<>> THEN <<>> ELSE Head(ss) \o Concat(Tail(ss))

\* the chunks of all documents of an input list, in document and chunk order
RECURSIVE AllChunks(_)
AllChunks(docs) ==
    IF docs = <<>> THEN <<>>
    ELSE split_into_chunks(Head(docs), DefaultChunkSize).value \o AllChunks(Tail(docs))

\* cs is the partition of document into consecutive windows of length size
IsPartition(cs, document, size) ==
    /\ Concat(cs) = document
    /\ SumLen(cs) = Len(document)
    /\ \A k \in DOMAIN cs :
          /\ k < Len(cs) => Len(cs[k]) = size
          /\ k = Len(cs) => Len(cs[k]) \in 1..size
          /\ cs[k] = [j \in 1..Len(cs[k]) |-> document[(k - 1) * size + j]]

\* C1: for chunk_size >= 1 the chunks are the consecutive, non-overlapping windows of
\* the document in order: they concatenate to the document, all but the last have
\* length chunk_size, the last has length 1..chunk_size ("ABCDEFGHIJ", 3 gives
\* ABC, DEF, GHI, J); the same holds of the chunks __call__ works on
C1_Partition ==
    /\ (split.called /\ split.chunk_size >= 1) =>
          /\ split.raised = None
          /\ IsPartition(split.value, split.document, split.chunk_size)
    /\ (split.called /\ split.document = SampleDocument /\ split.chunk_size = 3) =>
          split.value = << <<"A", "B", "C">>, <<"D", "E", "F">>, <<"G", "H", "I">>, <<"J">> >>
    /\ epc = "awaiting" => IsPartition(chunks, input[di], DefaultChunkSize)

C1_Witness ==
    /\ split.called
    /\ split.document = SampleDocument
    /\ split.chunk_size = 3
    /\ Len(split.value) = 4
    /\ split.value[4] = <<"J">>

\* C2: for chunk_size >= 1 the number of chunks is ceil(len(document) / chunk_size),
\* zero for the empty document
C2_Count ==
    /\ (split.called /\ split.chunk_size >= 1) =>
          /\ split.raised = None
          /\ Len(split.value) = Ceil(Len(split.document), split.chunk_size)
          /\ split.document = <<>> => split.value = <<>>
    /\ epc = "awaiting" => Len(chunks) = Ceil(Len(input[di]), DefaultChunkSize)

C2_Witness ==
    /\ split.called
    /\ Len(split.document) = 4
    /\ split.chunk_size = 3
    /\ Len(split.value) = 2

\* C3: a successful __call__ returns as many vectors as there are chunks, and the
\* vector at position i is the provider's answer to the request for chunk i
C3_OrderPreserved ==
    epc = "returned" =>
        /\ result.returned
        /\ Len(result.value) = Len(AllChunks(input))
        /\ Len(calls) = Len(result.value)
        /\ \A i \in DOMAIN result.value :
              /\ calls[i].request.input = <<AllChunks(input)[i]>>
              /\ calls[i].raised = NoException
              /\ result.value[i] = calls[i].response.embedding

C3_Witness ==
    /\ epc = "returned"
    /\ Len(input) = 1
    /\ Len(input[1]) = DefaultChunkSize + 1
    /\ Len(result.value) = 2

\* C4: the provider is invoked once per chunk, in chunk order, with that one chunk as
\* the request's input, identical chunks included; without chunks it is not invoked
\* and the result is empty
C4_OncePerChunk ==
    /\ epc # "idle" =>
          /\ Len(calls) <= Len(AllChunks(input))
          /\ \A i \in DOMAIN calls : calls[i].request = Request(AllChunks(input)[i])
    /\ epc = "returned" =>
          /\ Len(calls) = Len(AllChunks(input))
          /\ AllChunks(input) = <<>> => (calls = <<>> /\ result = [returned |-> TRUE, value |-> <<>>])

C4_Witness ==
    /\ epc = "returned"
    /\ Len(calls) = 2
    /\ calls[1].request = calls[2].request
    /\ Len(calls[1].request.input[1]) = DefaultChunkSize

\* C5: a provider failure on chunk k fails the whole call: nothing is returned, the
\* failing request is the last request the provider ever sees (no retry, no request
\* for a later chunk), and the failure reaches the caller
C5_AllOrNothing ==
    /\ \A j \in DOMAIN calls :
          calls[j].raised # NoException =>
              /\ j = Len(calls)
              /\ epc = "raised"
    /\ epc = "raised" =>
          /\ result = NoResult
          /\ error # NoException
          /\ calls # <<>>
          /\ calls[Len(calls)].raised # NoException
          /\ Len(calls) = Len(all_embeddings) + 1
          /\ calls[Len(calls)].request.input = <<AllChunks(input)[Len(calls)]>>

C5_Witness ==
    /\ epc = "raised"
    /\ Len(calls) = 3
    /\ Len(all_embeddings) = 2
    /\ Len(AllChunks(input)) = 4

C7_NonPositiveRejected ==
    (split.called /\ split.chunk_size < 1) => split.raised = "ValueError"

\* the content, with its trailing whitespace stripped, ends with TERMINATE
EndsWithTerminateAfterStrip(s) ==
    \E n \in 1..Len(s) :
        /\ \A i \in (n + 1)..Len(s) : s[i] \in Whitespace
        /\ n >= Len(TERMINATE)
        /\ \A j \in 1..Len(TERMINATE) : s[n - Len(TERMINATE) + j] = TERMINATE[j]

\* the messages of the running (or last) chat that the proxy received
ReceivedByProxy == SelectSeq(chat_messages, LAMBDA m : m.name = "assistant")

ChatBounded ==
    /\ turns <= max_turns
    /\ Len(ReceivedByProxy) <= max_turns
    /\ cpc # "idle" =>
          /\ \A i \in DOMAIN ReceivedByProxy :
                ~EndsWithTerminateAfterStrip(ReceivedByProxy[i].content)
          /\ Len(ReceivedByProxy) < max_turns
    /\ cpc = "proxy" => turns < max_turns
    /\ (cpc = "idle" /\ chat_messages # <<>>) =>
          LET last == chat_messages[Len(chat_messages)]
          IN  /\ last.name = "assistant"
              /\ Len(ReceivedByProxy) = turns
              /\ EndsWithTerminateAfterStrip(last.content) \/ turns = max_turns

C9_HistoryIsTurnLog ==
    /\ Len(chat_history) = Len(turn_log)
    /\ chat_history = turn_log

\* C10 as claimed: once the app is closed, docs_path is the empty list
C10_ClosedMeansNoDocs == closed => docs_path = <<>>

\* the number of 512-character windows of the documents before index d
RECURSIVE VectorsBefore(_, _)
VectorsBefore(docs, d) ==
    IF d <= 1 THEN 0
    ELSE VectorsBefore(docs, d - 1) + Ceil(Len(docs[d - 1]), DefaultChunkSize)

\* the c-th 512-character window of a document
Window(document, c) ==
    [j \in 1..Min(DefaultChunkSize, Len(document) - (c - 1) * DefaultChunkSize) |->
        document[(c - 1) * DefaultChunkSize + j]]

\* the returned list is flat, grouped by document in input order and by chunk order
\* within a document, and has sum of ceil(len(doc)/512) vectors
FlatByDocument ==
    /\ result.returned
    /\ Len(result.value) = VectorsBefore(input, Len(input) + 1)
    /\ Len(calls) = Len(result.value)
    /\ \A d \in DOMAIN input :
          \A c \in 1..Ceil(Len(input[d]), DefaultChunkSize) :
              LET i == VectorsBefore(input, d) + c
              IN  /\ calls[i].request.input = <<Window(input[d], c)>>
                  /\ result.value[i] = calls[i].response.embedding

EveryDocumentOneWindow ==
    \A d \in DOMAIN input : Len(input[d]) \in 1..DefaultChunkSize

EmptyDocuments == Cardinality({d \in DOMAIN input : input[d] = <<>>})

\* the vectors beyond the first of the documents longer than one window
ExtraVectors ==
    VectorsBefore(input, Len(input) + 1) - Cardinality({d \in DOMAIN input : input[d] # <<>>})

\* C11 as claimed: the flat list has sum of ceil(len(doc)/512) vectors, and that equals
\* the number of documents only when every document has 1..512 characters
C11_LengthEqualsOnlyIfOneWindowEach ==
    epc = "returned" =>
        /\ FlatByDocument
        /\ Len(result.value) = Len(input) => EveryDocumentOneWindow

\* C11 as amended: the flat list is grouped by document and chunk and has sum of
\* ceil(len(doc)/512) vectors; that equals the number of documents when every document
\* has 1..512 characters, and otherwise exactly when the extra vectors of the longer
\* documents count as many as the empty documents
C11_FlatList ==
    epc = "returned" =>
        /\ FlatByDocument
        /\ EveryDocumentOneWindow => Len(result.value) = Len(input)
        /\ Len(result.value) = Len(input) <=> ExtraVectors = EmptyDocuments

C11_Witness ==
    /\ epc = "returned"
    /\ Len(input) = 2
    /\ input[1] = <<>>
    /\ Len(input[2]) = DefaultChunkSize + 1
    /\ Len(result.value) = 2

====
